---- MODULE Spec2Model ----
(***************************************************************************)
(* Model of the arXiv retrieval pipeline of fastArxiv: src/papers.py        *)
(* (class Arxiv: download_papers / fetch_and_process / process_item in      *)
(* batch mode, read_papers in streaming mode) and of the helpers of         *)
(* src/utils.py that decide what a unit of work does (xml_to_dict,          *)
(* extract_links, load_pdf_text, save_to_file).                             *)
(***************************************************************************)
EXTENDS Integers, Sequences, FiniteSets, TLC

\* ---------------------------------------------------------------- bounds
MaxQueries == 2      \* length of the list of queries given to the client
MaxEntries == 3      \* entries of one search response
max_workers == 2     \* Arxiv(max_workers=...), the size of the thread pool

\* ------------------------------------------------------------- XML values
\* hrefs are character sequences, so that '"/pdf" in href' is a real
\* substring test
PdfMarker == <<"/", "p", "d", "f">>
AbsHref == <<"h", ":", "/", "a", "b", "s", "/", "1">>
Pdf1Href == <<"h", ":", "/", "p", "d", "f", "/", "1">>
Pdf2Href == <<"h", ":", "/", "p", "d", "f", "/", "2">>

\* the dict xml_to_dict builds for one <link .../> element: nonempty is the
\* truth value of the dict, hasHref says whether the key "@href" is there
LinkAbs == [nonempty |-> TRUE, hasHref |-> TRUE, href |-> AbsHref]
LinkPdf1 == [nonempty |-> TRUE, hasHref |-> TRUE, href |-> Pdf1Href]
LinkPdf2 == [nonempty |-> TRUE, hasHref |-> TRUE, href |-> Pdf2Href]
LinkRelOnly == [nonempty |-> TRUE, hasHref |-> FALSE, href |-> <<>>]

\* <entry> elements of a response: which of <id>, <title> are there, and the
\* <link> children in document order
EntryFull == [id |-> TRUE, title |-> TRUE, links |-> <<LinkAbs, LinkPdf1, LinkPdf2>>]
EntryNoLinks == [id |-> TRUE, title |-> TRUE, links |-> <<>>]
EntryRelFirst == [id |-> TRUE, title |-> TRUE, links |-> <<LinkRelOnly, LinkPdf1>>]
EntryAbsOnly == [id |-> TRUE, title |-> FALSE, links |-> <<LinkAbs>>]
EntrySamples == {EntryFull, EntryNoLinks, EntryRelFirst, EntryAbsOnly}

SeqsUpTo(S, n) == UNION {[1..k -> S] : k \in 0..n}

\* ------------------------------------------------------------ xml_to_dict
\* the value stored under one tag of the result dict: absent, a single
\* child dict, or a list of child dicts
AbsentVal == [present |-> FALSE, isList |-> FALSE, items |-> <<>>]

\* "if tag in result: promote to list and append, else: store the child"
InsertChild(val, child) ==
    IF val.present
    THEN [present |-> TRUE, isList |-> TRUE, items |-> Append(val.items, child)]
    ELSE [present |-> TRUE, isList |-> FALSE, items |-> <<child>>]

RECURSIVE CollectChildren(_, _)
CollectChildren(val, children) ==
    IF children = <<>> THEN val
    ELSE CollectChildren(InsertChild(val, Head(children)), Tail(children))

\* the dict of one <entry>: its keys in insertion order and the "link" value
EntryToDict(e) ==
    [keys |-> (IF e.id THEN <<"id">> ELSE <<>>)
              \o (IF e.title THEN <<"title">> ELSE <<>>)
              \o (IF e.links # <<>> THEN <<"link">> ELSE <<>>),
     link |-> CollectChildren(AbsentVal, e.links)]

EmptyDict == [keys |-> <<>>, link |-> AbsentVal]

\* the value of embedded_data.get("entry") for a feed with these entries
FeedEntryValue(entries) ==
    CollectChildren(AbsentVal, [i \in 1..Len(entries) |-> EntryToDict(entries[i])])

\* ----------------------------------------------------- per-entry logic
Contains(s, sub) ==
    \E i \in 1..(Len(s) - Len(sub) + 1) : SubSeq(s, i, i + Len(sub) - 1) = sub

MkLink(d) == [hasHref |-> d.hasHref, href |-> d.href]

\* the list comprehension of extract_links without its "if url" filter
RECURSIVE KeepAll(_)
KeepAll(ds) ==
    IF ds = <<>> THEN <<>> ELSE <<MkLink(Head(ds))>> \o KeepAll(Tail(ds))

RECURSIVE KeepTruthy(_)
KeepTruthy(ds) ==
    IF ds = <<>> THEN <<>>
    ELSE (IF Head(ds).nonempty THEN <<MkLink(Head(ds))>> ELSE <<>>)
         \o KeepTruthy(Tail(ds))

extract_links(val) ==
    IF ~val.present THEN <<>>
    ELSE IF ~val.isList
         THEN (IF val.items[1].nonempty THEN <<MkLink(val.items[1])>> ELSE <<>>)
         ELSE KeepTruthy(val.items)

\* the result of extract_pdf_link: kind "href" (a link was found), "none"
\* (None is returned) or "error" ('in' applied to an href that is None)
RECURSIVE extract_pdf_link(_)
extract_pdf_link(links) ==
    IF links = <<>> THEN [kind |-> "none", href |-> <<>>]
    ELSE IF ~Head(links).hasHref THEN [kind |-> "error", href |-> <<>>]
    ELSE IF Contains(Head(links).href, PdfMarker)
         THEN [kind |-> "href", href |-> Head(links).href]
    ELSE extract_pdf_link(Tail(links))

\* an item handed to a unit of work: an entry dict, or a string (a key of
\* the entry dict, when a dict is iterated)
DictItem(i, d) == [src |-> i, isDict |-> TRUE, dict |-> d, key |-> ""]
KeyItem(i, k) == [src |-> i, isDict |-> FALSE, dict |-> EmptyDict, key |-> k]

HasKey(d, k) == \E i \in 1..Len(d.keys) : d.keys[i] = k

\* __get_raw: a string has no .get (AttributeError); for a dict every field
\* is read with .get(key, {}).get("#text", None), so a missing <id> or
\* <title> gives None and no exception
get_raw(item) ==
    IF ~item.isDict
    THEN [err |-> TRUE, hasId |-> FALSE, hasTitle |-> FALSE, links |-> <<>>]
    ELSE [err |-> FALSE,
          hasId |-> HasKey(item.dict, "id"),
          hasTitle |-> HasKey(item.dict, "title"),
          links |-> extract_links(item.dict.link)]

\* __get_raw followed by extract_pdf_link
LinkOfItem(item) ==
    LET s == get_raw(item) IN
    IF s.err THEN [kind |-> "error", href |-> <<>>]
    ELSE extract_pdf_link(s.links)

\* "for item in embedded_data" of fetch_and_process: a list yields its
\* elements, a dict yields its keys
BatchItems(val) ==
    IF val.isList
    THEN [i \in 1..Len(val.items) |-> DictItem(i, val.items[i])]
    ELSE [k \in 1..Len(val.items[1].keys) |-> KeyItem(1, val.items[1].keys[k])]

\* read_papers: "if not isinstance(entries, list): entries = [entries]"
StreamItems(val) ==
    [i \in 1..Len(val.items) |-> DictItem(i, val.items[i])]

\* ------------------------------------------------------------------ state
VARIABLES
    mode,       \* "batch" (download_papers) or "stream" (read_papers)
    qi,         \* index of the query being processed
    phase,      \* position of the pipeline in the current query
    caller,     \* "running", "returned" or "raised" (PaperGeneralError)
    attempted,  \* the queries whose search request was issued
    resp,       \* the search response of the current query
    errors,     \* pipeline-level errors raised for the current query
    todo,       \* items of the current query still to submit / to process
    pool,       \* the futures of the executor: queued, running or done units
    cur,        \* streaming: the entry the generator is working on
    sdone,      \* streaming: the entries of the current query already handled
    yielded,    \* streaming: what the consumer received for the current query
    gen,        \* streaming: "running", "suspended" (at a yield), "finished", "closed"
    calc        \* a helper function applied on its own: its argument and result

\* the state of the pipeline
pvars == <<mode, qi, phase, caller, attempted, resp, errors, todo,
           pool, cur, sdone, yielded, gen>>

vars == <<pvars, calc>>

\* len(queries): the list given to download_papers or read_papers
nQueries == MaxQueries

NoResp == [wellformed |-> TRUE, entries |-> <<>>]
NoCur == [active |-> FALSE, item |-> KeyItem(0, ""), fetched |-> <<>>]
NoCalc == [fn |-> "none"]

Init ==
    /\ mode \in {"batch", "stream"}
    /\ qi = 1
    /\ phase = "Idle"
    /\ caller = "running"
    /\ attempted = {}
    /\ resp = NoResp
    /\ errors = 0
    /\ todo = <<>>
    /\ pool = <<>>
    /\ cur = NoCur
    /\ sdone = <<>>
    /\ yielded = <<>>
    /\ gen = "running"
    /\ calc = NoCalc

\* the caller's thread (batch) or the generator (stream) is executing
Active == caller = "running" /\ gen = "running"

Unfinished(units) == SelectSeq(units, LAMBDA u : u.st # "done")

\* ------------------------------------------------ the search request
\* self.client.get(...) is called for query qi
SearchRequest ==
    /\ Active /\ phase = "Idle" /\ qi <= nQueries
    /\ phase' = "Fetching"
    /\ attempted' = attempted \cup {qi}
    /\ UNCHANGED <<calc, mode, qi, caller, resp, errors, todo, pool, cur, sdone,
                   yielded, gen>>

\* client.get raises (network error) or raise_for_status raises
SearchFails ==
    /\ Active /\ phase = "Fetching"
    /\ phase' = "Failed"
    /\ errors' = errors + 1
    /\ UNCHANGED <<calc, mode, qi, caller, attempted, resp, todo, pool,
                   cur, sdone, yielded, gen>>

\* a success status: the body is well-formed markup with some entries, or not
SearchOk ==
    /\ Active /\ phase = "Fetching"
    /\ \E w \in BOOLEAN, es \in SeqsUpTo(EntrySamples, MaxEntries) :
          resp' = [wellformed |-> w, entries |-> IF w THEN es ELSE <<>>]
    /\ phase' = "Parsing"
    /\ UNCHANGED <<calc, mode, qi, caller, attempted, errors, todo, pool,
                   cur, sdone, yielded, gen>>

\* (mutant) a parse error of the response is swallowed and the response
\* is treated as one without entries
ParseLenient ==
    /\ Active /\ phase = "Parsing"
    /\ LET val == FeedEntryValue(resp.entries) IN
       IF ~val.present
       THEN phase' = "Done" /\ todo' = <<>>
       ELSE /\ phase' = "Dispatching"
            /\ todo' = IF mode = "batch" THEN BatchItems(val) ELSE StreamItems(val)
    /\ UNCHANGED <<calc, mode, qi, caller, attempted, resp, errors, pool, cur,
                   sdone, yielded, gen>>

\* xml_to_dict(response.text) and the test for the key "entry"
Parse ==
    /\ Active /\ phase = "Parsing"
    /\ IF ~resp.wellformed
       THEN /\ phase' = "Failed"
            /\ errors' = errors + 1
            /\ todo' = todo
       ELSE LET val == FeedEntryValue(resp.entries) IN
            /\ errors' = errors
            /\ IF ~val.present
               THEN phase' = "Done" /\ todo' = <<>>
               ELSE /\ phase' = "Dispatching"
                    /\ todo' = IF mode = "batch" THEN BatchItems(val)
                               ELSE StreamItems(val)
    /\ UNCHANGED <<calc, mode, qi, caller, attempted, resp, pool, cur,
                   sdone, yielded, gen>>

\* ------------------------------------------------------------ batch mode
\* the futures of the current call of fetch_and_process
MyUnits == SelectSeq(pool, LAMBDA u : u.q = qi)

NewUnit(item) ==
    [q |-> qi, item |-> item, st |-> "queued", outcome |-> "pending",
     fetched |-> <<>>, content |-> "absent", saves |-> 0]

\* self.executor.submit(self.process_item, item, overwrite), one item at a
\* time; after the last one the caller goes on to wait(futures)
Submit ==
    /\ mode = "batch" /\ Active /\ phase = "Dispatching"
    /\ IF todo = <<>>
       THEN phase' = "Awaiting" /\ UNCHANGED <<todo, pool>>
       ELSE /\ pool' = Append(pool, NewUnit(Head(todo)))
            /\ todo' = Tail(todo)
            /\ phase' = phase
    /\ UNCHANGED <<calc, mode, qi, caller, attempted, resp, errors, cur,
                   sdone, yielded, gen>>

RunningCount == Cardinality({i \in 1..Len(pool) : pool[i].st \in {"running", "fetching"}})

\* (mutant) a thread per unit: the pool is not bounded
WorkerAlwaysFree == TRUE

\* a worker thread is free to take work from the queue
WorkerFree == RunningCount < max_workers

\* a free worker takes the oldest queued unit
Start(i) ==
    /\ i \in 1..Len(pool) /\ pool[i].st = "queued"
    /\ \A j \in 1..(i - 1) : pool[j].st # "queued"
    /\ WorkerFree
    /\ pool' = [pool EXCEPT ![i].st = "running"]
    /\ UNCHANGED <<calc, mode, qi, phase, caller, attempted, resp, errors,
                   todo, cur, sdone, yielded, gen>>

\* process_item up to the call of load_pdf_text
Normalize(i) ==
    /\ i \in 1..Len(pool) /\ pool[i].st = "running"
    /\ LET l == LinkOfItem(pool[i].item) IN
       pool' = [pool EXCEPT ![i] =
          IF l.kind = "error" THEN [@ EXCEPT !.st = "done", !.outcome = "failed"]
          ELSE IF l.kind = "none" THEN [@ EXCEPT !.st = "done", !.outcome = "skipped"]
          ELSE [@ EXCEPT !.st = "fetching", !.fetched = Append(@, l.href)]]
    /\ UNCHANGED <<calc, mode, qi, phase, caller, attempted, resp, errors,
                   todo, cur, sdone, yielded, gen>>

\* (mutant) the record is saved whatever load_pdf_text did (the save sits in
\* a finally clause)
FetchReturnSaveAlways(i) ==
    /\ i \in 1..Len(pool) /\ pool[i].st = "fetching"
    /\ \E r \in {"text", "fetch_error", "save_error"} :
       pool' = [pool EXCEPT ![i] =
          IF r = "fetch_error"
          THEN [@ EXCEPT !.st = "done", !.outcome = "failed", !.saves = @ + 1]
          ELSE IF r = "save_error"
               THEN [@ EXCEPT !.st = "done", !.outcome = "failed",
                              !.content = "text", !.saves = @ + 1]
          ELSE [@ EXCEPT !.st = "done", !.outcome = "saved",
                         !.content = "text", !.saves = @ + 1]]
    /\ UNCHANGED <<calc, mode, qi, phase, caller, attempted, resp, errors,
                   todo, cur, sdone, yielded, gen>>

\* load_pdf_text returns the text, which becomes the content of the record,
\* or raises PDFDownloadError; with the text, save_to_file is called and
\* writes the record or raises OSError
FetchReturn(i) ==
    /\ i \in 1..Len(pool) /\ pool[i].st = "fetching"
    /\ \E r \in {"text", "fetch_error", "save_error"} :
       pool' = [pool EXCEPT ![i] =
          IF r = "fetch_error" THEN [@ EXCEPT !.st = "done", !.outcome = "failed"]
          ELSE IF r = "save_error"
               THEN [@ EXCEPT !.st = "done", !.outcome = "failed",
                              !.content = "text", !.saves = @ + 1]
          ELSE [@ EXCEPT !.st = "done", !.outcome = "saved",
                         !.content = "text", !.saves = @ + 1]]
    /\ UNCHANGED <<calc, mode, qi, phase, caller, attempted, resp, errors,
                   todo, cur, sdone, yielded, gen>>

\* (mutant) the loop over done calls future.result(), which raises the
\* exception of a failed unit in the caller
WaitAllReraise ==
    /\ mode = "batch" /\ Active /\ phase = "Awaiting"
    /\ \A i \in 1..Len(pool) : pool[i].q = qi => pool[i].st = "done"
    /\ IF \E i \in 1..Len(pool) : pool[i].q = qi /\ pool[i].outcome = "failed"
       THEN phase' = "Failed" /\ errors' = errors + 1
       ELSE phase' = "Done" /\ errors' = errors
    /\ UNCHANGED <<calc, mode, qi, caller, attempted, resp, todo, pool, cur, sdone,
                   yielded, gen>>

\* (mutant) wait(futures, return_when=FIRST_COMPLETED)
WaitFirst ==
    /\ mode = "batch" /\ Active /\ phase = "Awaiting"
    /\ \/ MyUnits = <<>>
       \/ \E i \in 1..Len(pool) : pool[i].q = qi /\ pool[i].st = "done"
    /\ phase' = "Done"
    /\ UNCHANGED <<calc, mode, qi, caller, attempted, resp, errors, todo, pool, cur,
                   sdone, yielded, gen>>

\* wait(futures) returns when every future of this call is done; the loop
\* over done only logs future.exception()
WaitAll ==
    /\ mode = "batch" /\ Active /\ phase = "Awaiting"
    /\ \A i \in 1..Len(pool) : pool[i].q = qi => pool[i].st = "done"
    /\ phase' = "Done"
    /\ UNCHANGED <<calc, mode, qi, caller, attempted, resp, errors, todo,
                   pool, cur, sdone, yielded, gen>>

\* fetch_and_process returned, its locals (response, futures) are gone: the
\* next query of the list, or the end of download_papers
BatchNext ==
    /\ mode = "batch" /\ Active /\ phase = "Done"
    /\ IF qi < nQueries
       THEN /\ qi' = qi + 1 /\ phase' = "Idle" /\ caller' = caller
            /\ pool' = Unfinished(pool)
            /\ resp' = NoResp /\ errors' = 0 /\ todo' = <<>>
       ELSE /\ caller' = "returned"
            /\ UNCHANGED <<qi, phase, pool, resp, errors, todo>>
    /\ UNCHANGED <<calc, mode, attempted, cur, sdone, yielded, gen>>

\* an exception left fetch_and_process: "raise PaperGeneralError(...)"
BatchRaise ==
    /\ mode = "batch" /\ Active /\ phase = "Failed"
    /\ caller' = "raised"
    /\ UNCHANGED <<calc, mode, qi, phase, attempted, resp, errors, todo,
                   pool, cur, sdone, yielded, gen>>

\* -------------------------------------------------------- streaming mode
\* an entry the generator is done with; read_papers never calls save_to_file
Handled(c, outcome) ==
    [src |-> c.item.src, item |-> c.item, fetched |-> c.fetched,
     outcome |-> outcome,
     content |-> IF outcome = "yielded" THEN "text" ELSE "absent",
     saves |-> 0]

\* a record handed to the consumer by "yield"; passed says whether the
\* consumer has resumed the generator since
YieldedRecord(c) == [src |-> c.item.src, kind |-> "record", passed |-> FALSE]

\* the body of "for item in entries" up to the call of load_pdf_text; an
\* exception is logged and the loop continues, no pdf link is logged
StreamItem ==
    /\ mode = "stream" /\ Active /\ phase = "Dispatching"
    /\ ~cur.active /\ todo # <<>>
    /\ LET item == Head(todo)
           l == LinkOfItem(item)
           c == [active |-> TRUE, item |-> item, fetched |-> <<>>] IN
       /\ todo' = Tail(todo)
       /\ IF l.kind = "error"
          THEN sdone' = Append(sdone, Handled(c, "failed")) /\ cur' = cur
          ELSE IF l.kind = "none"
          THEN sdone' = Append(sdone, Handled(c, "skipped")) /\ cur' = cur
          ELSE cur' = [c EXCEPT !.fetched = <<l.href>>] /\ sdone' = sdone
    /\ UNCHANGED <<calc, mode, qi, phase, caller, attempted, resp, errors,
                   pool, yielded, gen>>

\* (mutant) the generator goes on with the next entry without waiting for
\* the consumer (the records are buffered)
StreamFetchReturnEager ==
    /\ mode = "stream" /\ Active /\ phase = "Dispatching" /\ cur.active
    /\ \E r \in {"text", "fetch_error"} :
       IF r = "text"
       THEN /\ yielded' = Append(yielded, YieldedRecord(cur))
            /\ sdone' = Append(sdone, Handled(cur, "yielded"))
       ELSE /\ sdone' = Append(sdone, Handled(cur, "failed"))
            /\ UNCHANGED yielded
    /\ cur' = NoCur
    /\ UNCHANGED <<calc, mode, qi, phase, caller, attempted, resp, errors,
                   todo, pool, gen>>

\* load_pdf_text returns: the record is yielded, or the error is logged
StreamFetchReturn ==
    /\ mode = "stream" /\ Active /\ phase = "Dispatching" /\ cur.active
    /\ \E r \in {"text", "fetch_error"} :
       IF r = "text"
       THEN /\ yielded' = Append(yielded, YieldedRecord(cur))
            /\ sdone' = Append(sdone, Handled(cur, "yielded"))
            /\ gen' = "suspended"
       ELSE /\ sdone' = Append(sdone, Handled(cur, "failed"))
            /\ UNCHANGED <<yielded, gen>>
    /\ cur' = NoCur
    /\ UNCHANGED <<calc, mode, qi, phase, caller, attempted, resp, errors,
                   todo, pool>>

\* the consumer asks for the next paper ("async for")
Resume ==
    /\ mode = "stream" /\ gen = "suspended"
    /\ gen' = "running"
    /\ yielded' = [yielded EXCEPT ![Len(yielded)].passed = TRUE]
    /\ UNCHANGED <<calc, mode, qi, phase, caller, attempted, resp, errors,
                   todo, pool, cur, sdone>>

\* the consumer stops early and the generator is closed
StopEarly ==
    /\ mode = "stream" /\ gen = "suspended"
    /\ gen' = "closed"
    /\ UNCHANGED <<calc, mode, qi, phase, caller, attempted, resp, errors,
                   todo, pool, cur, sdone, yielded>>

\* the entries of the query are exhausted
StreamQueryDone ==
    /\ mode = "stream" /\ Active /\ phase = "Dispatching"
    /\ ~cur.active /\ todo = <<>>
    /\ phase' = "Done"
    /\ UNCHANGED <<calc, mode, qi, caller, attempted, resp, errors, todo,
                   pool, cur, sdone, yielded, gen>>

\* "continue" (after a logged error or at the end of the entries): the next
\* query of the list, or the end of the generator
StreamNext ==
    /\ mode = "stream" /\ Active /\ phase \in {"Done", "Failed"}
    /\ IF qi < nQueries
       THEN /\ qi' = qi + 1 /\ phase' = "Idle" /\ gen' = gen
            /\ resp' = NoResp /\ errors' = 0 /\ todo' = <<>>
            /\ sdone' = <<>> /\ yielded' = <<>>
       ELSE /\ gen' = "finished"
            /\ UNCHANGED <<qi, phase, resp, errors, todo, sdone, yielded>>
    /\ UNCHANGED <<calc, mode, caller, attempted, pool, cur>>

\* ---------------------------------------------------------- specification
Worker == \E i \in 1..Len(pool) : Start(i) \/ Normalize(i) \/ FetchReturn(i)

Next ==
    \/ SearchRequest \/ SearchFails \/ SearchOk \/ Parse
    \/ Submit \/ WaitAll \/ BatchNext \/ BatchRaise
    \/ Worker
    \/ StreamItem \/ StreamFetchReturn \/ Resume \/ StopEarly
    \/ StreamQueryDone \/ StreamNext

Spec == Init /\ [][Next]_vars

\* a worker thread that can take a step does take one: threads are scheduled,
\* and load_pdf_text returns or raises within its timeout
FairSpec == Spec /\ WF_vars(Worker)

\* ------------------------------------------------------------ properties
\* what was done for the entries of the current query, in either mode
HandledUnits == IF mode = "batch" THEN MyUnits ELSE sdone

UnitsOf(e) == SelectSeq(HandledUnits, LAMBDA u : u.item.src = e)

HasPdfLink(entry) ==
    \E k \in 1..Len(entry.links) :
        entry.links[k].hasHref /\ Contains(entry.links[k].href, PdfMarker)

\* the first link, in document order, whose href contains "/pdf"; a link
\* without href does not match
RECURSIVE FirstPdfHref(_)
FirstPdfHref(links) ==
    IF links = <<>> THEN <<>>
    ELSE IF Head(links).hasHref /\ Contains(Head(links).href, PdfMarker)
         THEN Head(links).href
    ELSE FirstPdfHref(Tail(links))

\* C1: in batch mode, when fetch_and_process is done with a response of n
\* entries, there are exactly n outcomes, exactly one per entry.
C1_OneOutcomePerEntry ==
    (mode = "batch" /\ phase = "Done") =>
        /\ Len(MyUnits) = Len(resp.entries)
        /\ \A e \in 1..Len(resp.entries) :
              Len(SelectSeq(UnitsOf(e), LAMBDA u : u.st = "done")) = 1

\* C2: a failed unit changes no sibling unit and gives its worker back; when
\* fetch_and_process is done every unit it submitted has its own outcome; the
\* caller of download_papers sees an exception only when no unit was
\* submitted for the query; in streaming mode every entry of the query is
\* handled whatever failed before it.
C2_FailureContained ==
    /\ [](mode = "batch" /\ caller = "raised" => phase = "Failed" /\ MyUnits = <<>>)
    /\ [](mode = "batch" /\ phase = "Done" =>
            \A i \in 1..Len(pool) : pool[i].q = qi => pool[i].st = "done")
    /\ [](mode = "stream" /\ phase = "Done" =>
            \A e \in 1..Len(resp.entries) : Len(UnitsOf(e)) = 1)
    /\ [][\A i \in 1..Len(pool) :
            (/\ Len(pool') = Len(pool)
             /\ pool[i].outcome # "failed"
             /\ pool'[i].outcome = "failed")
            => /\ \A j \in 1..Len(pool) : j # i => pool'[j] = pool[j]
               /\ WorkerFree'
               /\ caller' = caller /\ phase' = phase]_vars

C2_Witness ==
    /\ mode = "batch" /\ caller = "returned" /\ phase = "Done"
    /\ \E i, j \in 1..Len(pool) :
          /\ pool[i].q = qi /\ pool[j].q = qi
          /\ i < j
          /\ pool[i].outcome = "failed" /\ pool[j].outcome = "saved"

\* C3: when a query is done, every entry without a "/pdf" link has exactly
\* one output with absent content: in batch mode one unit that ended without
\* content, in streaming mode one yielded item.
C3_NoPdfEntryEmittedOnce ==
    phase = "Done" =>
        \A e \in 1..Len(resp.entries) :
            ~HasPdfLink(resp.entries[e]) =>
                IF mode = "batch"
                THEN /\ Len(UnitsOf(e)) = 1
                     /\ UnitsOf(e)[1].outcome = "skipped"
                ELSE Len(SelectSeq(yielded, LAMBDA y : y.src = e)) = 1

\* C4: when download_papers has ended, returning or raising, the search
\* request of every query of the list was issued.
C4_LaterQueriesAttempted ==
    (mode = "batch" /\ caller # "running") => attempted = 1..nQueries

\* C5: for a response with exactly one entry, exactly one unit of work is
\* run and its item is the whole entry node, in both modes.
C5_SingleEntryCoerced ==
    (phase = "Done" /\ Len(resp.entries) = 1) =>
        /\ Len(HandledUnits) = 1
        /\ HandledUnits[1].item = DictItem(1, EntryToDict(resp.entries[1]))

\* C6: the phases of a query follow Idle, Fetching, Parsing, Dispatching,
\* Awaiting in that order (streaming mode handles its units while dispatching
\* and has nothing to await) and end in Done or Failed; Failed is entered
\* from Fetching or Parsing only, with one pipeline-level error, no unit
\* submitted or handled, no content fetch, nothing saved and nothing yielded;
\* a response that is not well-formed never gets past Parsing other than to
\* Failed.
PhaseEdges ==
    {<<"Idle", "Fetching">>, <<"Fetching", "Parsing">>, <<"Fetching", "Failed">>,
     <<"Parsing", "Dispatching">>, <<"Parsing", "Done">>, <<"Parsing", "Failed">>,
     <<"Dispatching", "Awaiting">>, <<"Awaiting", "Done">>}

C6_QueryStateMachine ==
    /\ [][(phase' # phase \/ qi' # qi) =>
            \/ qi' = qi /\ <<phase, phase'>> \in PhaseEdges
            \/ qi' = qi /\ mode = "stream" /\ phase = "Dispatching" /\ phase' = "Done"
            \/ qi' = qi + 1 /\ phase \in {"Done", "Failed"} /\ phase' = "Idle"]_vars
    /\ [](phase = "Failed" =>
            /\ errors = 1
            /\ todo = <<>> /\ sdone = <<>> /\ yielded = <<>> /\ ~cur.active
            /\ \A i \in 1..Len(pool) : pool[i].q # qi)
    /\ [](~resp.wellformed => phase \in {"Parsing", "Failed"})
    /\ [](caller # "running" \/ gen = "finished" => phase \in {"Done", "Failed"})

C6_Witness ==
    /\ mode = "batch" /\ qi = 2 /\ phase = "Failed" /\ caller = "raised"
    /\ ~resp.wellformed

\* C7: in streaming mode, when a query is done the consumer has received
\* exactly one failure item for every entry whose unit failed.
C7_StreamFailureYielded ==
    (mode = "stream" /\ phase = "Done") =>
        \A k \in 1..Len(sdone) :
            sdone[k].outcome = "failed" =>
                Len(SelectSeq(yielded,
                        LAMBDA y : y.src = sdone[k].src /\ y.kind = "failure")) = 1

\* C8: when a query is done, the content fetches made for an entry are
\* exactly one fetch of the href of its first "/pdf" link when it has one,
\* and none otherwise.
C8_ExactFetches ==
    phase = "Done" =>
        \A e \in 1..Len(resp.entries) :
            LET want == FirstPdfHref(resp.entries[e].links)
                us == UnitsOf(e)
                n == Cardinality({k \in 1..Len(us) : us[k].fetched # <<>>}) IN
            /\ \A k \in 1..Len(us) : us[k].fetched \in {<<>>, <<want>>}
            /\ n = IF HasPdfLink(resp.entries[e]) THEN 1 ELSE 0

\* C9: at every moment at most max_workers units are executing, and whenever
\* units wait in the queue of the pool the queue is eventually empty: every
\* waiting unit is eventually started (a unit leaves the queue only by being
\* started by a worker).
SomeQueued == \E i \in 1..Len(pool) : pool[i].st = "queued"

C9_BoundedPool ==
    /\ [](RunningCount <= max_workers)
    /\ SomeQueued ~> ~SomeQueued

C9_Witness ==
    /\ RunningCount = max_workers
    /\ \E i \in 1..Len(pool) : pool[i].st = "queued"
    /\ qi = 2

\* C10: in batch mode a unit that is not done belongs to the query whose
\* fetch_and_process is dispatching or waiting, so units of two queries never
\* run together; the search requests are issued in list order, one query
\* after the other.
C10_QueriesSequential ==
    mode = "batch" =>
        /\ \A i \in 1..Len(pool) :
              pool[i].st # "done" =>
                  pool[i].q = qi /\ phase \in {"Dispatching", "Awaiting"}
        /\ attempted = 1..(IF phase = "Idle" THEN qi - 1 ELSE qi)

C10_Witness ==
    /\ mode = "batch" /\ qi = 2 /\ Len(pool) >= 2
    /\ pool[1].q = 2 /\ pool[2].q = 2
    /\ pool[1].st = "fetching" /\ pool[2].st = "done"

\* C12: when a query is done, every unit whose entry lacks <id> or <title>
\* has ended as a failure.
MissingRequired(item) ==
    item.isDict /\ (~HasKey(item.dict, "id") \/ ~HasKey(item.dict, "title"))

C12_MissingRequiredFails ==
    phase = "Done" =>
        \A k \in 1..Len(HandledUnits) :
            MissingRequired(HandledUnits[k].item) => HandledUnits[k].outcome = "failed"

\* C17: save_to_file is called at most once by a unit and at most once for an
\* entry, only by a unit whose content fetch returned text (the content of the
\* record is populated); a unit that failed before or in the fetch, or that
\* found no "/pdf" link, made no call; streaming mode makes no call at all.
AllUnits == IF mode = "batch" THEN pool ELSE sdone

C17_SaveOnlyWithContent ==
    /\ \A k \in 1..Len(AllUnits) :
          LET u == AllUnits[k] IN
          /\ u.saves <= 1
          /\ u.saves = 1 => u.content = "text" /\ u.fetched # <<>> /\ u.st = "done"
          /\ u.content = "absent" => u.saves = 0
    /\ \A e \in 1..Len(resp.entries) :
          Cardinality({k \in 1..Len(UnitsOf(e)) : UnitsOf(e)[k].saves > 0}) <= 1
    /\ mode = "stream" => \A k \in 1..Len(sdone) : sdone[k].saves = 0

C17_Witness ==
    /\ mode = "batch" /\ phase = "Done"
    /\ \E i, j, k \in 1..Len(pool) :
          /\ pool[i].outcome = "saved" /\ pool[i].saves = 1
          /\ pool[j].outcome = "failed" /\ pool[j].fetched # <<>> /\ pool[j].saves = 0
          /\ pool[k].outcome = "skipped"

\* C18: streaming mode does not use the worker pool; a content fetch is in
\* flight only while the generator runs, at most one at a time, and only
\* after the consumer has resumed the generator past every record yielded
\* before, each of an earlier entry; records are yielded in entry order and
\* the queries are requested in list order; once the consumer has stopped,
\* no fetch is in flight and nothing more happens.
InFlight ==
    (IF cur.active THEN 1 ELSE 0)
    + Cardinality({i \in 1..Len(pool) : pool[i].st = "fetching"})

C18_StreamSequentialLazy ==
    /\ [](mode = "stream" =>
            /\ pool = <<>>
            /\ InFlight <= 1
            /\ attempted = 1..(IF phase = "Idle" THEN qi - 1 ELSE qi)
            /\ \A k, l \in 1..Len(yielded) : k < l => yielded[k].src < yielded[l].src
            /\ cur.active =>
                  /\ gen = "running"
                  /\ \A k \in 1..Len(yielded) :
                        yielded[k].passed /\ yielded[k].src < cur.item.src)
    /\ [][gen = "closed" => vars' = vars]_vars

C18_Witness ==
    /\ mode = "stream" /\ qi = 2 /\ cur.active
    /\ Len(yielded) >= 1 /\ Len(todo) >= 1

\* ------------------------------------------ the two modes on one response
\* In the specifications below the pipeline is parked and calc holds the
\* argument and the result of the functions applied.
Parked ==
    /\ mode = "helper" /\ qi = 1 /\ phase = "Idle" /\ caller = "running"
    /\ attempted = {} /\ resp = NoResp /\ errors = 0 /\ todo = <<>>
    /\ pool = <<>> /\ cur = NoCur /\ sdone = <<>> /\ yielded = <<>>
    /\ gen = "running"

\* what a unit of work ends with for this item when load_pdf_text gives r and
\* save_to_file, where it is called, succeeds
UnitResult(item, r) ==
    LET l == LinkOfItem(item) IN
    IF l.kind = "error" THEN "failed"
    ELSE IF l.kind = "none" THEN "skipped"
    ELSE IF r = "text" THEN "record" ELSE "failed"

\* the outcomes of the units of one query, given the fetch result of each entry
RunItems(items, fetch) ==
    [k \in 1..Len(items) |->
        [src |-> items[k].src, outcome |-> UnitResult(items[k], fetch[items[k].src])]]

\* fetch_and_process on a well-formed response with these entries
BatchRun(entries, fetch) ==
    LET val == FeedEntryValue(entries) IN
    IF ~val.present THEN <<>> ELSE RunItems(BatchItems(val), fetch)

\* read_papers on the same response
StreamRun(entries, fetch) ==
    LET val == FeedEntryValue(entries) IN
    IF ~val.present THEN <<>> ELSE RunItems(StreamItems(val), fetch)

ModesInit ==
    /\ Parked
    /\ \E es \in SeqsUpTo(EntrySamples, MaxEntries),
          f \in [1..MaxEntries -> {"text", "fetch_error"}] :
          calc = [fn |-> "modes", entries |-> es, fetch |-> f,
                  ranBatch |-> FALSE, batch |-> <<>>,
                  ranStream |-> FALSE, stream |-> <<>>]

RunBatch ==
    /\ calc.fn = "modes" /\ ~calc.ranBatch
    /\ calc' = [calc EXCEPT !.ranBatch = TRUE,
                            !.batch = BatchRun(calc.entries, calc.fetch)]
    /\ UNCHANGED pvars

RunStream ==
    /\ calc.fn = "modes" /\ ~calc.ranStream
    /\ calc' = [calc EXCEPT !.ranStream = TRUE,
                            !.stream = StreamRun(calc.entries, calc.fetch)]
    /\ UNCHANGED pvars

ModesNext == RunBatch \/ RunStream

ModesSpec == ModesInit /\ [][ModesNext]_vars

SrcsWith(run, outcome) ==
    {run[k].src : k \in {j \in 1..Len(run) : run[j].outcome = outcome}}

\* C11: for the same response and the same fetch results, the entries whose
\* record batch mode completes are the entries whose record streaming mode
\* yields, and the same entries end as failures and as skips.
C11_ModesAgree ==
    (calc.ranBatch /\ calc.ranStream) =>
        \A o \in {"record", "failed", "skipped"} :
            SrcsWith(calc.batch, o) = SrcsWith(calc.stream, o)

(***************************************************************************)
(* utils.xml_to_dict on element trees.  An element is its tag (namespace   *)
(* and local name), its attributes, its direct text, its children in       *)
(* document order, and the text that follows its end tag inside its parent *)
(* (the "tail", which ET.tostring(child) serialises with the child).       *)
(***************************************************************************)
MaxChildren == 3

\* str.strip() over sequences of characters
Whitespace == {" ", "\n", "\t"}

RECURSIVE LStrip(_)
LStrip(s) == IF s # <<>> /\ Head(s) \in Whitespace THEN LStrip(Tail(s)) ELSE s

RECURSIVE RStrip(_)
RStrip(s) ==
    IF s # <<>> /\ s[Len(s)] \in Whitespace
    THEN RStrip(SubSeq(s, 1, Len(s) - 1)) ELSE s

Strip(s) == RStrip(LStrip(s))

TagNames == {"b", "c"}

Elem(ns, name, attrs, text, kids, tail) ==
    [tag |-> [ns |-> ns, name |-> name], attrs |-> attrs, text |-> text,
     kids |-> kids, tail |-> tail]

\* <c>x</c>
KidText == Elem("", "c", {}, <<"x">>, <<>>, <<>>)
\* <b k="v"/> followed by white space
KidAttr == Elem("", "b", {[name |-> "k", value |-> "v"]}, <<>>, <<>>, <<" ">>)
\* <n:b> x </n:b>
KidNs == Elem("n", "b", {}, <<" ", "x", " ">>, <<>>, <<>>)
\* <b><c>x</c></b>
KidNested == Elem("", "b", {}, <<>>, <<KidText>>, <<>>)
\* <c/> followed by the text "t" (mixed content)
KidTail == Elem("", "c", {}, <<>>, <<>>, <<"t">>)
\* <b><c/>t</b>
KidNestedTail == Elem("", "b", {}, <<>>, <<KidTail>>, <<>>)

KidSamples == {KidText, KidAttr, KidNs, KidNested, KidTail, KidNestedTail}
RootAttrs == {{}, {[name |-> "id", value |-> "v"]}}
RootTexts == {<<>>, <<" ">>, <<" ", "x", " ">>}

\* the raised XMLParsingError
XmlError == [err |-> TRUE, at |-> {}, ch |-> [n \in TagNames |-> AbsentVal],
             text |-> <<>>]

RECURSIVE xml_to_dict(_)
RECURSIVE XmlChildren(_, _)

\* "for child in element": convert the serialised child, then store it under
\* its tag without the namespace; an error of a child ends the conversion
XmlChildren(kids, acc) ==
    IF kids = <<>> THEN acc
    ELSE LET child == Head(kids)
             tag == child.tag.name
             child_dict == xml_to_dict(child)
         IN IF child_dict.err THEN XmlError
            ELSE XmlChildren(Tail(kids),
                     [acc EXCEPT !.ch[tag] = InsertChild(@, child_dict)])

\* ET.fromstring(xml_data.strip()) accepts one element and nothing after it:
\* text left after the end tag is a ParseError ("junk after document element")
xml_to_dict(e) ==
    IF Strip(e.tail) # <<>> THEN XmlError
    ELSE LET withAttrs == [err |-> FALSE, at |-> e.attrs,
                           ch |-> [n \in TagNames |-> AbsentVal], text |-> <<>>]
             withKids == XmlChildren(e.kids, withAttrs)
         IN IF withKids.err THEN XmlError
            ELSE [withKids EXCEPT !.text = Strip(e.text)]

XmlInit ==
    /\ Parked
    /\ \E a \in RootAttrs, t \in RootTexts,
          ks \in SeqsUpTo(KidSamples, MaxChildren) :
            calc = [fn |-> "xml", elem |-> Elem("", "a", a, t, ks, <<>>),
                    done |-> FALSE, out |-> XmlError]

Convert ==
    /\ calc.fn = "xml"
    /\ ~calc.done
    /\ calc' = [calc EXCEPT !.done = TRUE, !.out = xml_to_dict(calc.elem)]
    /\ UNCHANGED pvars

XmlNext == Convert

XmlSpec == XmlInit /\ [][XmlNext]_vars

\* the children of e with local name n, in document order
KidsNamed(e, n) == LET Named(k) == k.tag.name = n IN SelectSeq(e.kids, Named)

\* C13: for every well-formed element xml_to_dict returns a map (no error) in
\* which a child tag occurring k >= 2 times is the ordered list of its k
\* converted children, a tag occurring once is the converted child itself, a
\* tag not occurring is absent, every attribute is kept and the trimmed
\* direct text is kept when it is not white space only.
C13_WellFormedConverted ==
    calc.done =>
        /\ ~calc.out.err
        /\ calc.out.at = calc.elem.attrs
        /\ calc.out.text = Strip(calc.elem.text)
        /\ \A n \in TagNames :
             LET ks == KidsNamed(calc.elem, n)
                 v == calc.out.ch[n]
             IN /\ v.present = (Len(ks) >= 1)
                /\ v.isList = (Len(ks) >= 2)
                /\ v.items = [j \in 1..Len(ks) |-> xml_to_dict(ks[j])]

(***************************************************************************)
(* utils.extract_authors, extract_links and extract_category on one node,  *)
(* given as the node itself and as a list holding the node.                *)
(***************************************************************************)
NoName == [kind |-> "absent", hasText |-> FALSE, text |-> ""]

\* <author/> converts to {}
AuthorEmpty == [nonempty |-> FALSE, name |-> NoName]
\* <author><affiliation>..</affiliation></author>
AuthorNoName == [nonempty |-> TRUE, name |-> NoName]
\* <author><name/></author>
AuthorNameNoText ==
    [nonempty |-> TRUE, name |-> [kind |-> "dict", hasText |-> FALSE, text |-> ""]]
\* <author><name>A</name></author>
AuthorNamed ==
    [nonempty |-> TRUE, name |-> [kind |-> "dict", hasText |-> TRUE, text |-> "A"]]
\* two <name> children: the value under "name" is a list
AuthorTwoNames ==
    [nonempty |-> TRUE, name |-> [kind |-> "list", hasText |-> FALSE, text |-> ""]]
AuthorSamples ==
    {AuthorEmpty, AuthorNoName, AuthorNameNoText, AuthorNamed, AuthorTwoNames}

\* <link/> converts to {}
LinkEmpty == [nonempty |-> FALSE, hasHref |-> FALSE, href |-> <<>>]
LinkSamples == {LinkEmpty, LinkRelOnly, LinkAbs, LinkPdf1}

\* <category/>, <category scheme=".."/>, <category term=""/>, <category term="cs.AI"/>
CategoryEmpty == [nonempty |-> FALSE, hasTerm |-> FALSE, term |-> ""]
CategoryNoTerm == [nonempty |-> TRUE, hasTerm |-> FALSE, term |-> ""]
CategoryBlankTerm == [nonempty |-> TRUE, hasTerm |-> TRUE, term |-> ""]
CategoryAI == [nonempty |-> TRUE, hasTerm |-> TRUE, term |-> "cs.AI"]
CategorySamples == {CategoryEmpty, CategoryNoTerm, CategoryBlankTerm, CategoryAI}

Single(n) == [present |-> TRUE, isList |-> FALSE, items |-> <<n>>]
ListOf(ns) == [present |-> TRUE, isList |-> TRUE, items |-> ns]

\* person.get("name", {}).get("#text"): a name, None, or an AttributeError
\* when the value under "name" is a list
NameOf(person) ==
    IF person.name.kind = "list" THEN [kind |-> "error", name |-> ""]
    ELSE IF person.name.kind = "dict" /\ person.name.hasText
              /\ person.name.text # ""
         THEN [kind |-> "name", name |-> person.name.text]
         ELSE [kind |-> "none", name |-> ""]

RECURSIVE FilterNames(_)
FilterNames(ns) ==
    IF ns = <<>> THEN <<>>
    ELSE (IF Head(ns).kind = "name" THEN <<Head(ns).name>> ELSE <<>>)
         \o FilterNames(Tail(ns))

extract_authors(val) ==
    IF ~val.present \/ (val.isList /\ val.items = <<>>)
          \/ (~val.isList /\ ~val.items[1].nonempty)
    THEN [kind |-> "list", names |-> <<>>]
    ELSE LET names == [j \in 1..Len(val.items) |-> NameOf(val.items[j])]
         IN IF \E j \in 1..Len(names) : names[j].kind = "error"
            THEN [kind |-> "error", names |-> <<>>]
            ELSE [kind |-> "list", names |-> FilterNames(names)]

\* the lists list(set(..)) can give for a set of terms: one per order
Orderings(S) ==
    {f \in [1..Cardinality(S) -> S] :
        \A i, j \in 1..Cardinality(S) : f[i] = f[j] => i = j}

\* the set of lists extract_category can return
extract_category(val) ==
    IF ~val.present \/ (val.isList /\ val.items = <<>>)
          \/ (~val.isList /\ ~val.items[1].nonempty)
    THEN {<<>>}
    ELSE IF ~val.isList
         THEN LET c == val.items[1]
              IN IF c.hasTerm /\ c.term # "" THEN {<<c.term>>} ELSE {<<>>}
         ELSE Orderings({val.items[j].term :
                  j \in {k \in 1..Len(val.items) :
                           /\ val.items[k].nonempty
                           /\ val.items[k].hasTerm
                           /\ val.items[k].term # ""}})

NoLists == [authors |-> [kind |-> "list", names |-> <<>>], links |-> <<>>,
            category |-> <<>>]

ShapeInit ==
    /\ Parked
    /\ \E a \in AuthorSamples, l \in LinkSamples, c \in CategorySamples :
          calc = [fn |-> "shape", author |-> a, link |-> l, category |-> c,
                  ranSingle |-> FALSE, single |-> NoLists,
                  ranList |-> FALSE, list |-> NoLists]

\* the three extractors applied to the node itself
ExtractSingle ==
    /\ calc.fn = "shape"
    /\ ~calc.ranSingle
    /\ \E cat \in extract_category(Single(calc.category)) :
          calc' = [calc EXCEPT
                     !.ranSingle = TRUE,
                     !.single = [authors |-> extract_authors(Single(calc.author)),
                                 links |-> extract_links(Single(calc.link)),
                                 category |-> cat]]
    /\ UNCHANGED pvars

\* the three extractors applied to the list [N]
ExtractList ==
    /\ calc.fn = "shape"
    /\ ~calc.ranList
    /\ \E cat \in extract_category(ListOf(<<calc.category>>)) :
          calc' = [calc EXCEPT
                     !.ranList = TRUE,
                     !.list = [authors |-> extract_authors(ListOf(<<calc.author>>)),
                               links |-> extract_links(ListOf(<<calc.link>>)),
                               category |-> cat]]
    /\ UNCHANGED pvars

ShapeNext == ExtractSingle \/ ExtractList

ShapeSpec == ShapeInit /\ [][ShapeNext]_vars

\* C14: for every node N, the empty node and the nodes without name, href or
\* term included, extract_authors, extract_links and extract_category give
\* the same result for N as for the one-element list [N].
C14_ShapeUniform ==
    (calc.ranSingle /\ calc.ranList) => calc.single = calc.list

\* both applications have run on an empty link node, an author without a
\* name and a category without a term
C14_Witness ==
    /\ calc.fn = "shape" /\ calc.ranSingle /\ calc.ranList
    /\ calc.link = LinkEmpty
    /\ calc.author = AuthorNoName
    /\ calc.category = CategoryNoTerm

(***************************************************************************)
(* utils.clean_text on strings, as sequences of characters.                *)
(***************************************************************************)
MaxTextLen == 5

TextChars == {" ", "\n", "\t", "a"}

\* texts holding the key "#text"
MarkedTexts == {<<"#", "t", "e", "x", "t">>,
                <<"a", " ", "#", "t", "e", "x", "t", " ", "a">>}

CHAR_REPLACEMENTS ==
    << <<(<<"\n">>), (<<" ">>)>>,
       <<(<<"\t">>), (<<" ">>)>>,
       <<(<<"\n", "\n">>), (<<" ">>)>>,
       <<(<<"\t", "\t">>), (<<" ">>)>>,
       <<(<<" ", " ">>), (<<" ">>)>>,
       <<(<<"#", "t", "e", "x", "t">>), (<<>>)>> >>

\* str.replace(old, new): one scan from the left over non-overlapping
\* occurrences of old; what it writes is not scanned again
RECURSIVE Replace(_, _, _)
Replace(s, old, new) ==
    IF Len(s) < Len(old) THEN s
    ELSE IF SubSeq(s, 1, Len(old)) = old
         THEN new \o Replace(SubSeq(s, Len(old) + 1, Len(s)), old, new)
         ELSE <<Head(s)>> \o Replace(Tail(s), old, new)

\* "for old, new in CHAR_REPLACEMENTS: text = text.replace(old, new)"
RECURSIVE ReplaceAll(_, _)
ReplaceAll(text, reps) ==
    IF reps = <<>> THEN text
    ELSE ReplaceAll(Replace(text, Head(reps)[1], Head(reps)[2]), Tail(reps))

clean_text(text) ==
    IF text = <<>> THEN text ELSE Strip(ReplaceAll(text, CHAR_REPLACEMENTS))

TextInit ==
    /\ Parked
    /\ \E t \in SeqsUpTo(TextChars, MaxTextLen) \cup MarkedTexts :
          calc = [fn |-> "text", text |-> t, done |-> FALSE, out |-> <<>>]

CleanText ==
    /\ calc.fn = "text"
    /\ ~calc.done
    /\ calc' = [calc EXCEPT !.done = TRUE, !.out = clean_text(calc.text)]
    /\ UNCHANGED pvars

TextNext == CleanText

TextSpec == TextInit /\ [][TextNext]_vars

\* C15: for every string the result of clean_text is trimmed and has every
\* whitespace run collapsed to one space: no newline, no tab and no two
\* consecutive spaces, whatever the length of the runs in the input.
C15_WhitespaceCollapsed ==
    calc.done =>
        LET out == calc.out
        IN /\ \A i \in 1..Len(out) : out[i] \notin {"\n", "\t"}
           /\ \A i \in 1..(Len(out) - 1) : ~(out[i] = " " /\ out[i + 1] = " ")
           /\ out # <<>> => (out[1] # " " /\ out[Len(out)] # " ")

(***************************************************************************)
(* Saving records: process_item's call of utils.save_to_file, the file     *)
(* names it builds and the directory it writes to.                         *)
(***************************************************************************)
MaxSaves == 3
MaxClock == 2

INVALID_FILENAME_CHARS ==
    << <<(<<" ">>), (<<"_">>)>>,
       <<(<<":">>), (<<>>)>>,
       <<(<<"\\">>), (<<>>)>>,
       <<(<<"/">>), (<<>>)>>,
       <<(<<"'">>), (<<>>)>>,
       <<(<<"\"">>), (<<>>)>>,
       <<(<<"-">>), (<<>>)>>,
       <<(<<"@">>), (<<>>)>>,
       <<(<<"\t">>), (<<>>)>>,
       <<(<<"\n">>), (<<>>)>>,
       <<(<<"\n", "\n">>), (<<>>)>>,
       <<(<<"?">>), (<<>>)>>,
       <<(<<"!">>), (<<>>)>>,
       <<(<<"_", "_">>), (<<"_">>)>> >>

\* <title> texts of entries; the empty one stands for a missing title
TitleSamples == {<<>>,
                 <<"a", "b">>,
                 <<"a", " ", "b">>,
                 <<"a", ":", " ", "\n", "b">>}

\* a file name: the cleaned name, the number of the uuid4 it was drawn from
\* (0: none) and the second of its timestamp (-1: none)
FileName(base, uuid, stamp) == [base |-> base, uuid |-> uuid, stamp |-> stamp]

\* clean_filename of a non-empty name
clean_filename(text) == ReplaceAll(text, INVALID_FILENAME_CHARS)

\* the path save_to_file opens: a fresh uuid4 when the name is empty, the
\* cleaned name otherwise, with "_<timestamp>" when add_timestamp is set
save_path(file_name, add_timestamp, uuids, now) ==
    LET stamp == IF add_timestamp THEN now ELSE -1
    IN IF file_name = <<>> THEN FileName(<<>>, uuids + 1, stamp)
       ELSE FileName(clean_filename(file_name), 0, stamp)

SaveInit ==
    /\ Parked
    /\ \E o \in BOOLEAN :
          calc = [fn |-> "save", overwrite |-> o, now |-> 0, uuids |-> 0,
                  files |-> {}, log |-> <<>>]

\* process_item for an entry whose PDF text was fetched: the record is
\* saved under its cleaned title with add_timestamp = overwrite, and
\* open(file_path, "w") replaces a file of that path
SaveRecord ==
    /\ calc.fn = "save"
    /\ Len(calc.log) < MaxSaves
    /\ \E raw \in TitleSamples :
          LET title == clean_text(raw)
              path == save_path(title, calc.overwrite, calc.uuids, calc.now)
              record == Len(calc.log) + 1
              kept == {f \in calc.files : f.name # path}
          IN calc' = [calc EXCEPT
                        !.uuids = IF title = <<>> THEN @ + 1 ELSE @,
                        !.files = kept \cup {[name |-> path, data |-> record]},
                        !.log = Append(@, [title |-> title, name |-> path,
                                           replaced |-> kept # calc.files])]
    /\ UNCHANGED pvars

\* a second passes (create_timestamp has a resolution of one second)
Tick ==
    /\ calc.fn = "save"
    /\ calc.now < MaxClock
    /\ calc' = [calc EXCEPT !.now = @ + 1]
    /\ UNCHANGED pvars

SaveNext == SaveRecord \/ Tick

SaveSpec == SaveInit /\ [][SaveNext]_vars

\* the saves before the k-th one of a record with the same cleaned title
EarlierSame(k) ==
    {j \in 1..(k - 1) : /\ calc.log[j].title # <<>>
                        /\ clean_filename(calc.log[j].title)
                             = clean_filename(calc.log[k].title)}

\* C16: with overwrite=True a save of a record whose sanitized title is the
\* name of an already saved file replaces that file; with overwrite=False no
\* save ever replaces an existing file.
C16_OverwriteFlag ==
    \A k \in 1..Len(calc.log) :
        IF calc.overwrite
        THEN EarlierSame(k) # {} => calc.log[k].replaced
        ELSE ~calc.log[k].replaced
====
